---- MODULE Spec2Model ----
(***************************************************************************)
(* Model of app_anvisa.py: the text normalizer, the reference and alias    *)
(* indexes built by load_db / load_alias, the matcher search_ingredients   *)
(* and the batch loop of the Streamlit script.                             *)
(*                                                                         *)
(* A Python string is a sequence of characters; a character is a TLA+      *)
(* string (a one-letter string for ASCII, a code-point name otherwise).    *)
(***************************************************************************)
EXTENDS Naturals, Sequences, FiniteSets

VARIABLES
    pc,                 \* position of the script / of the function under call
    text, once, twice,  \* normalize: its argument, normalize(text), normalize(once)
    db_file,            \* content of DB_PATH: Absent or a table
    alias_file,         \* content of ALIAS_PATH: Absent or a table
    df,                 \* value of load_db(DB_PATH); None before / without it
    alias_df,           \* value of load_alias(ALIAS_PATH)
    query, matches,     \* last call of search_ingredients: argument and outcome
    input_text,         \* the text area, as its sequence of lines (split on \n)
    button,             \* whether this run of the script is the click of the button
    user_queries, idx,  \* the batch loop's list and position
    results_found,      \* one entry per query classified as found
    results_not_found,  \* one entry per query classified as not found
    calls,              \* queries handed to search_ingredients in this run
    shown               \* st.error / st.warning messages shown to the operator

vars == <<pc, text, once, twice, db_file, alias_file, df, alias_df, query, matches,
          input_text, button, user_queries, idx, results_found, results_not_found,
          calls, shown>>

--------------------------------------------------------------------------
(* Characters *)

SP == " "
TAB == "\t"
DQ == "\""
SQ == "'"
SLASH == "/"
HYPHEN == "-"
LDQUO == "U+201C"    \* left curly double quote
ENDASH == "U+2013"
EMDASH == "U+2014"
MINUS == "U+2212"
EACUTE == "U+00E9"   \* e with acute accent
CJK == "U+4E2D"      \* a CJK ideograph

\* Python's None, and the NaN pandas gives for an empty spreadsheet cell.
None == <<"<None>">>
NaN == <<"<NaN>">>

\* what \s and str.strip() treat as whitespace, within the alphabet
Whitespace == {SP, TAB}

--------------------------------------------------------------------------
(* Sequence helpers *)

RECURSIVE Concat(_)
Concat(ss) == IF ss = <<>> THEN <<>> ELSE Head(ss) \o Concat(Tail(ss))

\* s[i..i+Len(p)-1] = p
MatchesAt(s, p, i) ==
    /\ i + Len(p) - 1 <= Len(s)
    /\ \A j \in 1..Len(p) : s[i + j - 1] = p[j]

\* literal substring test (Python's `p in s`)
IsSubstring(p, s) == \E i \in 1..(Len(s) + 1) : MatchesAt(s, p, i)

\* all strings over chars of length at most n
RECURSIVE StringsUpTo(_, _)
StringsUpTo(chars, n) ==
    IF n = 0 THEN {<<>>}
    ELSE LET shorter == StringsUpTo(chars, n - 1)
         IN shorter \cup {Append(s, c) : s \in shorter, c \in chars}

--------------------------------------------------------------------------
(* normalize, step by step *)

\* str(text): a string is itself, float NaN prints as "nan"
str(v) == IF v = NaN THEN <<"n", "a", "n">> ELSE v

\* re.sub(r"\s+", " ", text)
RECURSIVE re_sub_ws(_)
re_sub_ws(s) ==
    IF s = <<>> THEN <<>>
    ELSE IF Head(s) \in Whitespace
         THEN IF Len(s) > 1 /\ s[2] \in Whitespace
              THEN re_sub_ws(Tail(s))
              ELSE <<SP>> \o re_sub_ws(Tail(s))
         ELSE <<Head(s)>> \o re_sub_ws(Tail(s))

\* str.strip(chars): drops every leading and trailing character in cs
RECURSIVE lstrip(_, _)
lstrip(s, cs) ==
    IF s # <<>> /\ Head(s) \in cs THEN lstrip(Tail(s), cs) ELSE s

RECURSIVE rstrip(_, _)
rstrip(s, cs) ==
    IF s # <<>> /\ s[Len(s)] \in cs THEN rstrip(SubSeq(s, 1, Len(s) - 1), cs) ELSE s

strip(s, cs) == rstrip(lstrip(s, cs), cs)

\* str.replace(old, new): leftmost non-overlapping occurrences
RECURSIVE replace(_, _, _)
replace(s, old, new) ==
    IF s = <<>> THEN <<>>
    ELSE IF MatchesAt(s, old, 1)
         THEN new \o replace(SubSeq(s, Len(old) + 1, Len(s)), old, new)
         ELSE <<Head(s)>> \o replace(Tail(s), old, new)

\* unidecode's transliteration of one character (the dash variants are
\* already replaced when it runs)
unidecode_char(c) ==
    CASE c = LDQUO  -> <<DQ>>
      [] c = EACUTE -> <<"e">>
      [] c = CJK    -> <<"Z", "h", "o", "n", "g", SP>>
      [] OTHER      -> <<c>>

unidecode(s) == Concat([i \in 1..Len(s) |-> unidecode_char(s[i])])

\* str.lower() on the letters of the model's alphabets
lower_char(c) ==
    CASE c = "A" -> "a"
      [] c = "B" -> "b"
      [] c = "N" -> "n"
      [] c = "Z" -> "z"
      [] OTHER   -> c

lower(s) == [i \in 1..Len(s) |-> lower_char(s[i])]

strip_quotes(s) == strip(strip(strip(s, Whitespace), {DQ}), {SQ})

replace_slashes(s) ==
    replace(replace(replace(s, <<SP, SLASH, SP>>, <<SLASH>>),
                    <<SP, SLASH>>, <<SLASH>>),
            <<SLASH, SP>>, <<SLASH>>)

replace_dashes(s) ==
    replace(replace(replace(s, <<ENDASH>>, <<HYPHEN>>),
                    <<EMDASH>>, <<HYPHEN>>),
            <<MINUS>>, <<HYPHEN>>)

normalize(v) ==
    IF v = None THEN <<>>
    ELSE lower(unidecode(replace_dashes(replace_slashes(strip_quotes(re_sub_ws(str(v)))))))

--------------------------------------------------------------------------
(* Tables.  A spreadsheet file is [exists, columns, rows]; a row is a      *)
(* function from the column names to cells; an empty cell reads as NaN.    *)

ING == "Ingredient"
CAS == "CAS"
ALIAS == "Alias"
OFFICIAL == "Official"
NORM_ING == "__norm_ingredient"
NORM_CAS == "__norm_cas"
NORM_ALIAS == "__norm_alias"
NORM_OFFICIAL == "__norm_official"

AbsentFile == [exists |-> FALSE, columns |-> {}, rows |-> <<>>]

\* the value None of `df`, and a DataFrame
NoneDf == [isNone |-> TRUE, columns |-> {}, rows |-> <<>>]
DataFrame(cols, rs) == [isNone |-> FALSE, columns |-> cols, rows |-> rs]

\* load_db: `stop` tells that st.error + st.stop() ended the script inside it
load_db(file) ==
    IF ~file.exists THEN [stop |-> FALSE, df |-> NoneDf]
    ELSE IF ING \notin file.columns THEN [stop |-> TRUE, df |-> NoneDf]
    ELSE LET hasCas == CAS \in file.columns
             cols == file.columns \cup {NORM_ING} \cup (IF hasCas THEN {NORM_CAS} ELSE {})
             Row(r) == [c \in cols |->
                          CASE c = NORM_ING -> normalize(r[ING])
                            [] c = NORM_CAS -> normalize(str(r[CAS]))
                            [] c = CAS      -> str(r[CAS])
                            [] OTHER        -> r[c]]
         IN [stop |-> FALSE,
             df |-> DataFrame(cols, [i \in 1..Len(file.rows) |-> Row(file.rows[i])])]

\* load_alias: the rows of alias_df (its columns are always the same four)
load_alias(file) ==
    IF ~file.exists THEN <<>>
    ELSE IF ~({ALIAS, OFFICIAL} \subseteq file.columns) THEN <<>>
    ELSE LET cols == file.columns \cup {NORM_ALIAS, NORM_OFFICIAL}
             Row(r) == [c \in cols |->
                          CASE c = NORM_ALIAS    -> normalize(str(r[ALIAS]))
                            [] c = NORM_OFFICIAL -> normalize(str(r[OFFICIAL]))
                            [] c \in {ALIAS, OFFICIAL} -> str(r[c])
                            [] OTHER -> r[c]]
         IN [i \in 1..Len(file.rows) |-> Row(file.rows[i])]

--------------------------------------------------------------------------
(* Series.str.contains(pat, na=False): regex defaults to True, so pat is   *)
(* compiled by re and searched in every element.  The canonical keys of    *)
(* the model hold, of the characters re gives a meaning, only "." and the  *)
(* two parentheses; every other character of theirs is a literal.          *)

REGEX_DOT == "."
REGEX_OPEN == "("
REGEX_CLOSE == ")"

RECURSIVE re_balanced(_, _)
re_balanced(p, depth) ==
    IF p = <<>> THEN depth = 0
    ELSE IF Head(p) = REGEX_OPEN THEN re_balanced(Tail(p), depth + 1)
    ELSE IF Head(p) = REGEX_CLOSE THEN depth > 0 /\ re_balanced(Tail(p), depth - 1)
    ELSE re_balanced(Tail(p), depth)

\* re.compile(p) raises re.error (unterminated subpattern / unbalanced parenthesis)
re_error(p) == ~re_balanced(p, 0)

IsParen(c) == c \in {REGEX_OPEN, REGEX_CLOSE}
NotParen(c) == ~IsParen(c)

\* re.search(p, s) is not None, for a p that compiles: groups only group,
\* "." stands for any character, the rest stand for themselves
re_search(p, s) ==
    LET q == SelectSeq(p, NotParen)
    IN \E i \in 1..(Len(s) + 1) :
          /\ i + Len(q) - 1 <= Len(s)
          /\ \A j \in 1..Len(q) : q[j] = REGEX_DOT \/ q[j] = s[i + j - 1]

--------------------------------------------------------------------------
(* search_ingredients *)

\* df[mask]: the row positions where mask holds, in table order
RECURSIVE boolean_index(_, _, _)
boolean_index(mask, i, n) ==
    IF i > n THEN <<>>
    ELSE (IF mask[i] THEN <<i>> ELSE <<>>) \o boolean_index(mask, i + 1, n)

\* a variant that concatenates the three selections instead of or-ing the masks
select_rows_concat(mask_ing, mask_cas, mask_alias, n) ==
    boolean_index(mask_ing, 1, n) \o boolean_index(mask_cas, 1, n)
        \o boolean_index(mask_alias, 1, n)

\* a variant that appends the records only an alias selects after the others
select_rows_by_path(mask_ing, mask_cas, mask_alias, n) ==
    boolean_index([i \in 1..n |-> mask_ing[i] \/ mask_cas[i]], 1, n)
        \o boolean_index([i \in 1..n |-> mask_alias[i] /\ ~(mask_ing[i] \/ mask_cas[i])], 1, n)

\* final_mask = mask_ing | mask_cas | mask_alias; result = df[final_mask]
select_rows(mask_ing, mask_cas, mask_alias, n) ==
    boolean_index([i \in 1..n |-> mask_ing[i] \/ mask_cas[i] \/ mask_alias[i]], 1, n)

Raised == [raised |-> TRUE, rows |-> <<>>]
Returned(rs) == [raised |-> FALSE, rows |-> rs]

\* lines 86-105, for a canonical query key
search_masks(d, a, norm_q) ==
    IF re_error(norm_q) THEN Raised
    ELSE LET n == Len(d.rows)
             mask_ing == [i \in 1..n |-> re_search(norm_q, d.rows[i][NORM_ING])]
             mask_cas == [i \in 1..n |->
                            IF NORM_CAS \in d.columns
                            THEN re_search(norm_q, d.rows[i][NORM_CAS])
                            ELSE FALSE]
             alias_hits == {k \in 1..Len(a) : re_search(norm_q, a[k][NORM_ALIAS])}
             target_official_norms == {a[k][NORM_OFFICIAL] : k \in alias_hits}
             mask_alias == [i \in 1..n |->
                              IF a # <<>> /\ target_official_norms # {}
                              THEN d.rows[i][NORM_ING] \in target_official_norms
                              ELSE FALSE]
         IN Returned(select_rows(mask_ing, mask_cas, mask_alias, n))

\* a variant without the early return on an empty canonical query
search_ingredients_unguarded(d, a, q) ==
    IF d.isNone THEN Raised ELSE search_masks(d, a, normalize(q))

\* a None df raises at its first use (df.iloc / df[...])
search_ingredients(d, a, q) ==
    IF d.isNone THEN Raised
    ELSE IF normalize(q) = <<>> THEN Returned(<<>>)
    ELSE search_masks(d, a, normalize(q))


--------------------------------------------------------------------------
(* Inputs *)

MaxTextLen == 3      \* longest argument of normalize
MaxRows == 2         \* most rows of a reference table
MaxQueryLen == 2     \* longest query handed to search_ingredients directly
MaxLines == 2        \* most lines of the text area

Unset == <<"<unset>">>
NoMatches == [raised |-> FALSE, rows |-> <<>>]

NormChars == {SP, TAB, DQ, SQ, LDQUO, SLASH, HYPHEN, ENDASH, "A", EACUTE, CJK}
NormInputs == StringsUpTo(NormChars, MaxTextLen) \cup {None, NaN}

SeqsUpTo(S, n) == UNION {[1..k -> S] : k \in 0..n}

File(cols, rs) == [exists |-> TRUE, columns |-> cols, rows |-> rs]

\* cells of the reference table
IngCells == {<<"a">>, <<"b">>, <<SP>>}
CasCells == {<<"a">>, <<SP>>, NaN}
DbRows(cols) == {r \in [cols -> IngCells \cup CasCells] :
                   /\ r[ING] \in IngCells
                   /\ CAS \in cols => r[CAS] \in CasCells}
DbTables(cols) == {File(cols, rs) : rs \in SeqsUpTo(DbRows(cols), MaxRows) \ {<<>>}}
SearchTables == DbTables({ING, CAS}) \cup DbTables({ING})

\* cells of the alias table
AliasCells == {<<"a">>, <<SP>>, <<REGEX_OPEN>>}
OfficialCells == {<<"a">>, <<"b">>}
AliasRows == {r \in [{ALIAS, OFFICIAL} -> AliasCells \cup OfficialCells] :
                r[ALIAS] \in AliasCells /\ r[OFFICIAL] \in OfficialCells}
PlainAliasRows == {r \in AliasRows : r[ALIAS] # <<REGEX_OPEN>>}
AliasFiles ==
    {AbsentFile}
    \cup {File({ALIAS, OFFICIAL}, <<r>>) : r \in AliasRows}
    \cup {File({ALIAS, OFFICIAL}, <<r1, r2>>) : r1 \in PlainAliasRows, r2 \in PlainAliasRows}

QueryChars == {SP, "a", REGEX_DOT, REGEX_OPEN}
Queries == StringsUpTo(QueryChars, MaxQueryLen)

\* the files and the text area of a run of the script
RunDbFiles ==
    { AbsentFile,
      File({CAS}, <<[c \in {CAS} |-> <<"a">>]>>),
      File({ING}, <<[c \in {ING} |-> <<"a">>]>>),
      File({ING, CAS}, <<[c \in {ING, CAS} |-> IF c = ING THEN <<"a">> ELSE NaN],
                         [c \in {ING, CAS} |-> IF c = ING THEN <<"b">> ELSE <<"a">>]>>),
      File({ING, CAS}, <<[c \in {ING, CAS} |-> IF c = ING THEN NaN ELSE <<"b">>]>>) }
RunAliasFiles ==
    { AbsentFile,
      File({ALIAS}, <<[c \in {ALIAS} |-> <<"b">>]>>),
      File({ALIAS, OFFICIAL},
           <<[c \in {ALIAS, OFFICIAL} |-> IF c = ALIAS THEN <<"n">> ELSE <<"b">>]>>) }
Lines == {<<>>, <<SP>>, <<"a">>, <<SP, "a", SP>>, <<"n">>, <<REGEX_OPEN>>, <<DQ, DQ>>}
InputTexts == SeqsUpTo(Lines, MaxLines) \ {<<>>}

--------------------------------------------------------------------------
(* normalize applied to an argument, and again to its result *)

NormInit ==
    /\ pc = "normalize"
    /\ text \in NormInputs
    /\ once = Unset /\ twice = Unset
    /\ db_file = AbsentFile /\ alias_file = AbsentFile
    /\ df = NoneDf /\ alias_df = <<>>
    /\ query = <<>> /\ matches = NoMatches
    /\ input_text = <<>> /\ button = FALSE
    /\ user_queries = <<>> /\ idx = 0
    /\ results_found = <<>> /\ results_not_found = <<>>
    /\ calls = <<>> /\ shown = {}

NormalizeOnce ==
    /\ pc = "normalize"
    /\ once' = normalize(text)
    /\ pc' = "renormalize"
    /\ UNCHANGED <<text, twice, db_file, alias_file, df, alias_df, query, matches,
                   input_text, button, user_queries, idx, results_found,
                   results_not_found, calls, shown>>

NormalizeTwice ==
    /\ pc = "renormalize"
    /\ twice' = normalize(once)
    /\ pc' = "normalized"
    /\ UNCHANGED <<text, once, db_file, alias_file, df, alias_df, query, matches,
                   input_text, button, user_queries, idx, results_found,
                   results_not_found, calls, shown>>

NormNext == NormalizeOnce \/ NormalizeTwice

NormSpec == NormInit /\ [][NormNext]_vars

--------------------------------------------------------------------------
(* search_ingredients called on indexes built by load_db and load_alias *)

SearchInit ==
    /\ pc = "ready"
    /\ db_file \in SearchTables
    /\ alias_file \in AliasFiles
    /\ df = load_db(db_file).df
    /\ alias_df = load_alias(alias_file)
    /\ query = <<>> /\ matches = NoMatches
    /\ text = <<>> /\ once = Unset /\ twice = Unset
    /\ input_text = <<>> /\ button = FALSE
    /\ user_queries = <<>> /\ idx = 0
    /\ results_found = <<>> /\ results_not_found = <<>>
    /\ calls = <<>> /\ shown = {}

Search ==
    /\ pc = "ready"
    /\ \E q \in Queries :
          /\ query' = q
          /\ matches' = search_ingredients(df, alias_df, q)
    /\ pc' = "searched"
    /\ UNCHANGED <<text, once, twice, db_file, alias_file, df, alias_df,
                   input_text, button, user_queries, idx, results_found,
                   results_not_found, calls, shown>>

SearchNext == Search

SearchSpec == SearchInit /\ [][SearchNext]_vars

--------------------------------------------------------------------------
(* One run of the script *)

\* str.strip() of a line
strip_line(line) == strip(line, Whitespace)

\* [line.strip() for line in input_text.split("\n") if line.strip()]
RECURSIVE non_blank_lines(_)
non_blank_lines(ls) ==
    IF ls = <<>> THEN <<>>
    ELSE (IF strip_line(Head(ls)) # <<>> THEN <<strip_line(Head(ls))>> ELSE <<>>)
         \o non_blank_lines(Tail(ls))

Init ==
    /\ pc = "load_db"
    /\ db_file \in RunDbFiles
    /\ alias_file \in RunAliasFiles
    /\ input_text \in InputTexts
    /\ button \in BOOLEAN
    /\ df = NoneDf /\ alias_df = <<>>
    /\ query = <<>> /\ matches = NoMatches
    /\ text = <<>> /\ once = Unset /\ twice = Unset
    /\ user_queries = <<>> /\ idx = 0
    /\ results_found = <<>> /\ results_not_found = <<>>
    /\ calls = <<>> /\ shown = {}

\* line 154: df = load_db(DB_PATH)
LoadDb ==
    /\ pc = "load_db"
    /\ LET r == load_db(db_file)
       IN IF r.stop
          THEN /\ shown' = shown \cup {"error: no ingredient column"}
               /\ pc' = "stopped"
               /\ df' = df
          ELSE /\ df' = r.df
               /\ pc' = "load_alias"
               /\ shown' = shown
    /\ UNCHANGED <<text, once, twice, db_file, alias_file, alias_df, query, matches,
                   input_text, button, user_queries, idx, results_found,
                   results_not_found, calls>>

\* line 155: alias_df = load_alias(ALIAS_PATH)
LoadAlias ==
    /\ pc = "load_alias"
    /\ alias_df' = load_alias(alias_file)
    /\ pc' = "sidebar"
    /\ UNCHANGED <<text, once, twice, db_file, alias_file, df, query, matches,
                   input_text, button, user_queries, idx, results_found,
                   results_not_found, calls, shown>>

\* lines 157-166: the sidebar's database status
Sidebar ==
    /\ pc = "sidebar"
    /\ shown' = IF df.isNone THEN shown \cup {"error: database file not found"} ELSE shown
    /\ pc' = "guard"
    /\ UNCHANGED <<text, once, twice, db_file, alias_file, df, alias_df, query, matches,
                   input_text, button, user_queries, idx, results_found,
                   results_not_found, calls>>

\* a variant that warns but does not stop the script
DbGuardNoStop ==
    /\ pc = "guard"
    /\ shown' = IF df.isNone THEN shown \cup {"warning: put the database file in place"}
                 ELSE shown
    /\ pc' = "button"
    /\ UNCHANGED <<text, once, twice, db_file, alias_file, df, alias_df, query, matches,
                   input_text, button, user_queries, idx, results_found,
                   results_not_found, calls>>

\* lines 179-181: if df is None: st.warning(...); st.stop()
DbGuard ==
    /\ pc = "guard"
    /\ IF df.isNone
       THEN /\ shown' = shown \cup {"warning: put the database file in place"}
            /\ pc' = "stopped"
       ELSE /\ shown' = shown
            /\ pc' = "button"
    /\ UNCHANGED <<text, once, twice, db_file, alias_file, df, alias_df, query, matches,
                   input_text, button, user_queries, idx, results_found,
                   results_not_found, calls>>

\* lines 194-203: the button, the empty-input warning, the list of queries
Button ==
    /\ pc = "button"
    /\ IF ~button
       THEN /\ pc' = "done"
            /\ UNCHANGED <<user_queries, shown>>
       ELSE IF non_blank_lines(input_text) = <<>>
       THEN /\ shown' = shown \cup {"warning: enter at least one ingredient"}
            /\ pc' = "done"
            /\ UNCHANGED user_queries
       ELSE /\ user_queries' = non_blank_lines(input_text)
            /\ pc' = "loop"
            /\ UNCHANGED shown
    /\ idx' = 0
    /\ results_found' = <<>>
    /\ results_not_found' = <<>>
    /\ UNCHANGED <<text, once, twice, db_file, alias_file, df, alias_df, query, matches,
                   input_text, button, calls>>

\* lines 205-237: one iteration of the batch loop
LoopStep ==
    /\ pc = "loop"
    /\ idx < Len(user_queries)
    /\ LET q == user_queries[idx + 1]
           m == search_ingredients(df, alias_df, q)
       IN /\ query' = q
          /\ matches' = m
          /\ calls' = Append(calls, q)
          /\ IF m.raised
             THEN /\ pc' = "crashed"
                  /\ UNCHANGED <<idx, results_found, results_not_found>>
             ELSE /\ pc' = "loop"
                  /\ idx' = idx + 1
                  /\ IF m.rows # <<>>
                     THEN /\ results_found' = Append(results_found, [query |-> q, rows |-> m.rows])
                          /\ UNCHANGED results_not_found
                     ELSE /\ results_not_found' = Append(results_not_found, [query |-> q])
                          /\ UNCHANGED results_found
    /\ UNCHANGED <<text, once, twice, db_file, alias_file, df, alias_df,
                   input_text, button, user_queries, shown>>

\* lines 239-295: the loop is over; tabs and export
Report ==
    /\ pc = "loop"
    /\ idx = Len(user_queries)
    /\ pc' = "done"
    /\ UNCHANGED <<text, once, twice, db_file, alias_file, df, alias_df, query, matches,
                   input_text, button, user_queries, idx, results_found,
                   results_not_found, calls, shown>>

Next == LoadDb \/ LoadAlias \/ Sidebar \/ DbGuard \/ Button \/ LoopStep \/ Report

Spec == Init /\ [][Next]_vars


--------------------------------------------------------------------------
(* Properties *)

InResult(i) == \E k \in 1..Len(matches.rows) : matches.rows[k] = i
NameKey(i) == df.rows[i][NORM_ING]
HasCasKeys == NORM_CAS \in df.columns
CasKey(i) == df.rows[i][NORM_CAS]
RowIds == 1..Len(df.rows)
AliasIds == 1..Len(alias_df)
IsBlank(s) == \A k \in 1..Len(s) : s[k] \in Whitespace

\* C1: normalize is idempotent: normalizing a canonical key again gives the
\* same key, normalize(normalize(x)) = normalize(x), for every argument x.
NormalizeIdempotent == pc = "normalized" => twice = once

\* C2: name and registry matching is literal substring containment: for a
\* query with a non-empty canonical key q, a record no alias entry redirects
\* to is in the result exactly when q is a contiguous literal substring of
\* its name key or of its registry key.
LiteralSubstringMatching ==
    (pc = "searched" /\ normalize(query) # <<>> /\ ~matches.raised) =>
        \A i \in RowIds :
            (\A k \in AliasIds : alias_df[k][NORM_OFFICIAL] # NameKey(i)) =>
                (InResult(i) <=>
                    \/ IsSubstring(normalize(query), NameKey(i))
                    \/ HasCasKeys /\ IsSubstring(normalize(query), CasKey(i)))

\* C3: search_ingredients never ends in an error: every call, whatever the
\* query and the indexes, returns a (possibly empty) set of records.
SearchNeverRaises == pc = "searched" => ~matches.raised

\* C4: a record whose registry cell is null gets the empty registry key, so
\* no query with a non-empty key selects it through the registry path; a
\* record whose name cell is null gets the empty name key.
NullCellsGetEmptyKeys ==
    ~df.isNone =>
        \A i \in RowIds :
            /\ db_file.rows[i][ING] = NaN => NameKey(i) = <<>>
            /\ (CAS \in db_file.columns /\ db_file.rows[i][CAS] = NaN) =>
                  /\ CasKey(i) = <<>>
                  /\ (calls # <<>> /\ normalize(query) # <<>> /\ ~re_error(normalize(query)))
                        => ~re_search(normalize(query), CasKey(i))

\* a query equal to the alias text of an entry returns every record whose
\* name key is the entry's official key
OneHopResolves ==
    \A k \in AliasIds : \A i \in RowIds :
        (query = alias_df[k][ALIAS] /\ normalize(query) # <<>>
            /\ NameKey(i) = alias_df[k][NORM_OFFICIAL])
        => (~matches.raised /\ InResult(i))
\* a record that only a chain of two alias entries links to the query is not
\* returned
TwoHopsDoNotResolve ==
    \A i \in RowIds :
        ( /\ \E k1 \in AliasIds : \E k2 \in AliasIds :
                /\ query = alias_df[k1][ALIAS]
                /\ alias_df[k1][NORM_OFFICIAL] = alias_df[k2][NORM_ALIAS]
                /\ alias_df[k2][NORM_OFFICIAL] = NameKey(i)
                /\ \A j \in RowIds : NameKey(j) # alias_df[k2][NORM_ALIAS]
          /\ \A k \in AliasIds :
                alias_df[k][NORM_OFFICIAL] = NameKey(i)
                    => ~IsSubstring(normalize(query), alias_df[k][NORM_ALIAS])
          /\ ~IsSubstring(normalize(query), NameKey(i))
          /\ HasCasKeys => ~IsSubstring(normalize(query), CasKey(i)) )
        => ~InResult(i)
\* alias entries whose official key is no record's name key change nothing
InertAliasesSelectNothing ==
    (\A k \in AliasIds : \A i \in RowIds : alias_df[k][NORM_OFFICIAL] # NameKey(i))
        => matches = search_ingredients(df, <<>>, query)
\* C5: alias resolution is exactly one hop: search on the alias text of an
\* entry returns the record its official key names, a chain of two alias
\* entries does not resolve, and an alias whose official key names no record
\* selects nothing.
AliasOneHop ==
    pc = "searched" =>
        OneHopResolves /\ TwoHopsDoNotResolve /\ InertAliasesSelectNothing

\* C6: a query that is empty or only whitespace returns the empty result,
\* whatever the indexes hold (records or aliases with an empty key included).
EmptyQueryLaw ==
    (pc = "searched" /\ IsBlank(query)) => (~matches.raised /\ matches.rows = <<>>)

\* a whitespace-only query was answered on indexes holding a record with an
\* empty name key, one with an empty registry key and an alias with an empty key
EmptyQueryOnEmptyKeys ==
    /\ pc = "searched" /\ query = <<SP, SP>>
    /\ \E i \in RowIds : NameKey(i) = <<>>
    /\ HasCasKeys /\ \E i \in RowIds : CasKey(i) = <<>>
    /\ \E k \in AliasIds : alias_df[k][NORM_ALIAS] = <<>>
    /\ matches = Returned(<<>>)

\* the three paths of the last search, as the code computes them
ByName(i) == re_search(normalize(query), NameKey(i))
ByRegistry(i) == HasCasKeys /\ re_search(normalize(query), CasKey(i))
AliasHits(i) == {k \in AliasIds : /\ re_search(normalize(query), alias_df[k][NORM_ALIAS])
                                  /\ alias_df[k][NORM_OFFICIAL] = NameKey(i)}

\* C7: a record (table row) appears at most once in the result of one call,
\* however many of the paths (name, registry, alias entries) select it.
NoDuplicateRows ==
    pc = "searched" =>
        \A k1 \in 1..Len(matches.rows) : \A k2 \in 1..Len(matches.rows) :
            k1 # k2 => matches.rows[k1] # matches.rows[k2]

\* a returned record that the name path, the registry path and two alias
\* entries all select
RowSelectedByAllPaths ==
    /\ pc = "searched" /\ ~matches.raised /\ query = <<"a">>
    /\ \E i \in RowIds :
          /\ InResult(i) /\ ByName(i) /\ ByRegistry(i)
          /\ Cardinality(AliasHits(i)) >= 2

\* C10: the returned records are in the reference table's row order,
\* whichever path selected each of them.
TableOrderKept ==
    pc = "searched" =>
        \A k1 \in 1..Len(matches.rows) : \A k2 \in 1..Len(matches.rows) :
            k1 < k2 => matches.rows[k1] < matches.rows[k2]

\* two returned records, the earlier row selected by an alias only and the
\* later row by its name
AliasRowBeforeNameRow ==
    /\ pc = "searched" /\ ~matches.raised /\ query = <<"a">>
    /\ \E i \in RowIds : \E j \in RowIds :
          /\ i < j /\ InResult(i) /\ InResult(j)
          /\ ~ByName(i) /\ ~ByRegistry(i) /\ AliasHits(i) # {}
          /\ ByName(j) /\ AliasHits(j) = {}

\* C8: without a reference index (file absent, or present without the
\* ingredient column) the run tells the operator and stops: no index is
\* built and no query reaches search_ingredients in that run.
NoSearchWithoutIndex ==
    /\ (~db_file.exists \/ ING \notin db_file.columns) =>
          /\ df.isNone
          /\ calls = <<>>
          /\ pc \in {"load_db", "load_alias", "sidebar", "guard", "stopped"}
    /\ pc = "stopped" =>
          /\ ~ENABLED Next
          /\ IF db_file.exists
             THEN "error: no ingredient column" \in shown
             ELSE {"error: database file not found",
                   "warning: put the database file in place"} \subseteq shown
    /\ calls # <<>> => ~df.isNone

\* the run stopped on a table without the ingredient column, with the
\* button clicked and a query typed
StoppedOnMissingColumn ==
    /\ pc = "stopped" /\ db_file.exists /\ ING \notin db_file.columns
    /\ button /\ non_blank_lines(input_text) # <<>>
    /\ calls = <<>>

\* every entry of the two collections is in the right one
Classified ==
    /\ \A k \in 1..Len(results_found) :
          /\ results_found[k].rows # <<>>
          /\ results_found[k].rows
                = search_ingredients(df, alias_df, results_found[k].query).rows
    /\ \A k \in 1..Len(results_not_found) :
          search_ingredients(df, alias_df, results_not_found[k].query) = Returned(<<>>)
\* C9: when the batch has ended, every non-blank line, trimmed, went once to
\* the matcher and is in exactly one collection: found when its result is
\* non-empty, not found when it is empty; so the two collections together
\* count the non-blank lines, and blank lines never reach the matcher.
BatchPartition ==
    (button /\ pc \in {"done", "crashed"}) =>
        /\ calls = non_blank_lines(input_text)
        /\ Len(results_found) + Len(results_not_found) = Len(non_blank_lines(input_text))
        /\ Classified

\* the same for a batch loop that ran to its end
BatchPartitionOfCompletedLoop ==
    (button /\ pc = "done") =>
        /\ calls = non_blank_lines(input_text)
        /\ Len(results_found) + Len(results_not_found) = Len(non_blank_lines(input_text))
        /\ Classified

====
